---- MODULE Spec2Model ----
(***************************************************************************)
(* Model of src/main.cpp: the length-prefixed vector codec (namespace      *)
(* serialize), the string key-value store (iidx::KVStore) and the inverted *)
(* index built on both (iidx::IIndex).                                     *)
(*                                                                         *)
(* A DocId (uint64_t) is kept as its 8-byte little-endian memory image, so *)
(* that the largest id 2^64-1 is an ordinary value and the codec works on  *)
(* the bytes it really copies.  A blob (std::string) is a sequence of      *)
(* bytes.  The store is a function from the keys it holds to blobs.        *)
(***************************************************************************)
EXTENDS Integers, Sequences, FiniteSets, TLC

\* ------------------------------------------------------------------ bounds

\* Number of "small" doc-ids 0, 200, 400, ... offered to the operations; the
\* largest representable id is always offered as well.
NumSmallIds == 2
\* Longest vector handed to the codec on its own.
MaxLen == 2
\* Number of add_term calls each of the two concurrent callers makes.
MaxCalls == 1

\* ------------------------------------------------------- program constants

\* sizeof(size_t): the width of the length header.
SizeofSizeT == 8
\* sizeof(DocId), DocId = uint64_t.
SizeofT == 8
\* Largest value of one byte.
ByteMax == 255

\* --------------------------------------------------------- bytes and DocId

\* The k low bytes of n, least significant first.
RECURSIVE ToBytes(_, _)
ToBytes(n, k) ==
  IF k = 0 THEN <<>> ELSE <<n % (ByteMax + 1)>> \o ToBytes(n \div (ByteMax + 1), k - 1)

\* The number a little-endian byte image stands for (small images only).
RECURSIVE FromBytes(_)
FromBytes(b) ==
  IF b = <<>> THEN 0 ELSE b[1] + (ByteMax + 1) * FromBytes(Tail(b))

\* The memory image of the DocId n.
U64(n) == ToBytes(n, SizeofT)

\* The smallest and the largest representable DocId.
MinDocId == U64(0)
MaxDocId == [i \in 1..SizeofT |-> ByteMax]

DocIds == {U64(200 * i) : i \in 0..(NumSmallIds - 1)} \cup {MaxDocId}

\* The terms (store keys) offered to the operations.
Terms == {"cat", "dog"}

\* std::less<DocId>: the order of the unsigned numbers the images stand for.
Less(a, b) ==
  \E i \in 1..SizeofT : a[i] < b[i] /\ \A j \in (i + 1)..SizeofT : a[j] = b[j]

\* ------------------------------------------------------------------ codec

\* The bytes of a vector's storage, element after element.
RECURSIVE Flatten(_)
Flatten(data) ==
  IF data = <<>> THEN <<>> ELSE Head(data) \o Flatten(Tail(data))

\* A byte image cut back into elements of w bytes.
RECURSIVE Chunk(_, _)
Chunk(img, w) ==
  IF Len(img) < w THEN <<>>
  ELSE <<SubSeq(img, 1, w)>> \o Chunk(SubSeq(img, w + 1, Len(img)), w)

\* Memory dest after its first Len(bytes) bytes were overwritten.
Overwrite(dest, bytes) ==
  [i \in 1..Len(dest) |-> IF i <= Len(bytes) THEN bytes[i] ELSE dest[i]]

\* The two things a build does at data[0] of an empty vector (undefined
\* behaviour): carry on with the address, or trap on the bounds assertion.
Builds == {"benign", "trap"}

\* A write whose header holds the byte count instead of the element count.
write_vector_ByteCount(os, data, ub) ==
  [st |-> "ok",
   os |-> os \o ToBytes(SizeofT * Len(data), SizeofSizeT) \o Flatten(data)]

\* serialize::write_vector: the element count, then the element images.
write_vector(os, data, ub) ==
  LET len == Len(data)
      os1 == os \o ToBytes(len, SizeofSizeT)
  IN  IF len = 0 /\ ub = "trap"
      THEN [st |-> "abort", os |-> os1]
      ELSE [st |-> "ok", os |-> os1 \o Flatten(data)]

\* An input stream over a string: its bytes, how many were consumed, failbit.
IStream(str) == [buf |-> str, pos |-> 0, fail |-> FALSE]

\* istream::read of n bytes: nothing on a failed stream; otherwise the bytes
\* that are there, and failbit when they are fewer than n.
IsRead(is, n) ==
  IF is.fail THEN [bytes |-> <<>>, is |-> is]
  ELSE LET avail == Len(is.buf) - is.pos
       IN  IF n <= avail
           THEN [bytes |-> SubSeq(is.buf, is.pos + 1, is.pos + n),
                 is |-> [is EXCEPT !.pos = @ + n]]
           ELSE [bytes |-> SubSeq(is.buf, is.pos + 1, Len(is.buf)),
                 is |-> [is EXCEPT !.pos = Len(is.buf), !.fail = TRUE]]

\* vector::resize: cut to len, or padded with value-initialised elements.
resize(data, len) ==
  [i \in 1..len |-> IF i <= Len(data) THEN data[i] ELSE U64(0)]

\* A count vector::resize cannot serve: above max_size() it throws
\* length_error, and one of 2^24 elements or more exhausts the memory the
\* model grants (bad_alloc).
ResizeThrows(lenImg) == \E i \in 4..SizeofSizeT : lenImg[i] # 0

\* serialize::read_vector: len starts as 0, is overwritten by what the first
\* read delivers; data is resized to len and overwritten by what the second
\* read delivers.  No stream state is tested.
read_vector(is, data, ub) ==
  LET r1 == IsRead(is, SizeofSizeT)
      lenImg == Overwrite(ToBytes(0, SizeofSizeT), r1.bytes)
  IN  IF ResizeThrows(lenImg)
      THEN [st |-> "throw", is |-> r1.is, data |-> data]
      ELSE LET len == FromBytes(lenImg)
               resized == resize(data, len)
           IN  IF len = 0 /\ ub = "trap"
               THEN [st |-> "abort", is |-> r1.is, data |-> resized]
               ELSE LET r2 == IsRead(r1.is, SizeofT * len)
                        img == Overwrite(Flatten(resized), r2.bytes)
                    IN  [st |-> "ok", is |-> r2.is, data |-> Chunk(img, SizeofT)]

\* ---------------------------------------------------------------- KVStore

\* A freshly constructed store: no key.
EmptyStore == [k \in {} |-> <<>>]

\* An insert that keeps the value of a key already held (map::insert).
insert_KeepFirst(s, k, v) ==
  [x \in DOMAIN s \cup {k} |-> IF x \in DOMAIN s THEN s[x] ELSE v]

\* An insert that leaves the new key as the only one.
insert_DropOthers(s, k, v) == [x \in {k} |-> v]

\* KVStore::insert: _store[k] = v.
insert(s, k, v) ==
  [x \in DOMAIN s \cup {k} |-> IF x = k THEN v ELSE s[x]]

\* KVStore::get: return _store[k].  operator[] default-constructs the value
\* of a key that is not held, so the store may change; nothing is thrown.
get(s, k) ==
  IF k \in DOMAIN s
  THEN [val |-> s[k], store |-> s, err |-> "none"]
  ELSE [val |-> <<>>, store |-> insert(s, k, <<>>), err |-> "none"]

\* KVStore::exists.
exists(s, k) == k \in DOMAIN s

\* ----------------------------------------------------------------- IIndex

\* A search that ends at the end of the range whatever the elements are.
lower_bound_End(v, first, len, val) == first + len

\* A search that stops at the start of the range whatever the elements are.
lower_bound_First(v, first, len, val) == first

\* std::lower_bound over the len elements of v from position first: the
\* first position whose element is not less than val (halving search).
RECURSIVE lower_bound(_, _, _, _)
lower_bound(v, first, len, val) ==
  IF len = 0 THEN first
  ELSE LET half == len \div 2
           middle == first + half
       IN  IF Less(v[middle], val)
           THEN lower_bound(v, middle + 1, len - half - 1, val)
           ELSE lower_bound(v, first, half, val)

\* A search that never finds the value.
binary_search_Never(v, val) == FALSE

\* std::binary_search over the whole of v.
binary_search(v, val) ==
  LET i == lower_bound(v, 1, Len(v), val)
  IN  i # Len(v) + 1 /\ ~Less(val, v[i])

\* An insert that puts x after position p instead of before it.
VecInsert_After(v, p, x) ==
  IF p > Len(v) THEN v \o <<x>>
  ELSE SubSeq(v, 1, p) \o <<x>> \o SubSeq(v, p + 1, Len(v))

\* An insert that keeps nothing but x.
VecInsert_Replace(v, p, x) == <<x>>

\* vector::insert of x before position p.
VecInsert(v, p, x) == SubSeq(v, 1, p - 1) \o <<x>> \o SubSeq(v, p, Len(v))

\* A lookup that answers a term it does not hold with an empty list.
get_doc_vector_EmptyForAbsent(s, term, ub) ==
  IF exists(s, term)
  THEN [st |-> "ok", store |-> s, present |-> TRUE,
        vec |-> read_vector(IStream(s[term]), <<>>, "benign").data]
  ELSE [st |-> "ok", store |-> s, present |-> TRUE, vec |-> <<>>]

\* A lookup that reads the store without asking exists first.
get_doc_vector_NoExists(s, term, ub) ==
  LET g == get(s, term)
      r == read_vector(IStream(g.val), <<>>, "benign")
  IN  [st |-> "ok", store |-> g.store, present |-> r.data # <<>>, vec |-> r.data]

\* IIndex::get_doc_vector: absence for a key the store does not hold, else
\* the decoded blob; the stream state after the read is not looked at.
get_doc_vector(s, term, ub) ==
  IF exists(s, term)
  THEN LET g == get(s, term)
           r == read_vector(IStream(g.val), <<>>, ub)
       IN  [st |-> r.st, store |-> g.store, present |-> TRUE, vec |-> r.data]
  ELSE [st |-> "ok", store |-> s, present |-> FALSE, vec |-> <<>>]

\* IIndex::add_new_term: the singleton vector, encoded and inserted.
add_new_term(s, did, term, ub) ==
  LET w == write_vector(<<>>, <<did>>, ub)
  IN  IF w.st # "ok"
      THEN [st |-> w.st, store |-> s, inserts |-> 0]
      ELSE [st |-> "ok", store |-> insert(s, term, w.os), inserts |-> 1]

\* An update that stores the new id alone, as for a new term.
add_existing_term_Overwrite(s, did, term, ub) ==
  add_new_term(s, did, term, ub)

\* IIndex::add_existing_term: get, decode (through get_doc_vector), and if
\* the id is not found insert it at its lower bound, encode and insert.
add_existing_term(s, did, term, ub) ==
  LET g == get(s, term)
      d == get_doc_vector(g.store, term, ub)
  IN  IF d.st # "ok"
      THEN [st |-> d.st, store |-> d.store, inserts |-> 0]
      ELSE IF ~d.present
      THEN [st |-> "throw", store |-> d.store, inserts |-> 0]
      ELSE IF ~binary_search(d.vec, did)
      THEN LET it == lower_bound(d.vec, 1, Len(d.vec), did)
               doc_vec == VecInsert(d.vec, it, did)
               w == write_vector(<<>>, doc_vec, ub)
           IN  IF w.st # "ok"
               THEN [st |-> w.st, store |-> d.store, inserts |-> 0]
               ELSE [st |-> "ok", store |-> insert(d.store, term, w.os),
                     inserts |-> 1]
      ELSE [st |-> "ok", store |-> d.store, inserts |-> 0]

\* An add that treats every term as new.
add_term_AlwaysNew(s, did, term, ub) == add_new_term(s, did, term, ub)

\* IIndex::add_term.
add_term(s, did, term, ub) ==
  IF ~exists(s, term)
  THEN add_new_term(s, did, term, ub)
  ELSE add_existing_term(s, did, term, ub)

\* ------------------------------------------------------------------ state

VARIABLES
  _kvstore,  \* IIndex::_kvstore, the index's own store
  invoked,   \* terms add_term was called with
  added,     \* <<did, term>> pairs whose add_term returned
  ret,       \* the last index operation and what it returned
  kv,        \* a KVStore used on its own
  lastPut,   \* per key, the value of the last insert into kv
  kret,      \* the last operation on kv and what it returned
  csrc,      \* codec run: "vec" (a vector is written, then read) or "raw"
  cvec,      \* codec run: the vector handed to write_vector
  cbuf,      \* codec run: the bytes of the stream
  cres,      \* codec run: what read_vector left
  cpc,       \* codec run: "start", "written", "read", "aborted", "thrown"
  thr,       \* concurrent callers: each one's place in add_term and locals
  overlapped, \* a call began while another caller was inside add_term
  raced      \* two calls on one term had both read before either inserted

ivars == <<_kvstore, invoked, added, ret>>
kvars == <<kv, lastPut, kret>>
cvars == <<csrc, cvec, cbuf, cres, cpc>>
tvars == <<thr, overlapped, raced>>
vars == <<_kvstore, invoked, added, ret, kv, lastPut, kret,
          csrc, cvec, cbuf, cres, cpc, thr, overlapped, raced>>

\* ------------------------------------------------------------ index runs

NoRet ==
  [op |-> "none", did |-> MinDocId, term |-> "", st |-> "ok", inserts |-> 0,
   present |-> FALSE, vec |-> <<>>]

\* IIndex idx{}: an empty store.
IndexInit ==
  /\ _kvstore = EmptyStore
  /\ invoked = {}
  /\ added = {}
  /\ ret = NoRet

\* A call idx.add_term(did, term).
AddTerm(did, term) ==
  /\ ret.st = "ok"
  /\ \E ub \in Builds :
       LET r == add_term(_kvstore, did, term, ub)
       IN  /\ _kvstore' = r.store
           /\ invoked' = invoked \cup {term}
           /\ added' = IF r.st = "ok" THEN added \cup {<<did, term>>} ELSE added
           /\ ret' = [op |-> "add_term", did |-> did, term |-> term,
                      st |-> r.st, inserts |-> r.inserts,
                      present |-> FALSE, vec |-> <<>>]
  /\ UNCHANGED <<kvars, cvars, tvars>>

\* A call idx.get_doc_vector(term).
GetDocVector(term) ==
  /\ ret.st = "ok"
  /\ \E ub \in Builds :
       LET r == get_doc_vector(_kvstore, term, ub)
       IN  /\ _kvstore' = r.store
           /\ ret' = [op |-> "get_doc_vector", did |-> MinDocId, term |-> term,
                      st |-> r.st, inserts |-> 0,
                      present |-> r.present, vec |-> r.vec]
  /\ UNCHANGED <<invoked, added, kvars, cvars, tvars>>

\* ------------------------------------------------------------ store runs

\* The blobs handed to a store used on its own.
KVBlobs == {<<>>} \cup {write_vector(<<>>, <<d>>, "benign").os : d \in DocIds}

NoKRet == [op |-> "none", key |-> "", val |-> <<>>, existed |-> FALSE,
           err |-> "none"]

KVInit ==
  /\ kv = EmptyStore
  /\ lastPut = EmptyStore
  /\ kret = NoKRet

\* A call kv.insert(k, v).
KVInsert(k, v) ==
  /\ kv' = insert(kv, k, v)
  /\ lastPut' = [x \in DOMAIN lastPut \cup {k} |-> IF x = k THEN v ELSE lastPut[x]]
  /\ kret' = [op |-> "insert", key |-> k, val |-> v, existed |-> exists(kv, k),
              err |-> "none"]
  /\ UNCHANGED <<ivars, cvars, tvars>>

\* A call kv.get(k).
KVGet(k) ==
  /\ LET g == get(kv, k)
     IN  /\ kv' = g.store
         /\ kret' = [op |-> "get", key |-> k, val |-> g.val,
                     existed |-> exists(kv, k), err |-> g.err]
  /\ UNCHANGED <<lastPut, ivars, cvars, tvars>>

\* A call kv.exists(k).
KVExists(k) ==
  /\ kret' = [op |-> "exists", key |-> k, val |-> <<>>,
              existed |-> exists(kv, k), err |-> "none"]
  /\ UNCHANGED <<kv, lastPut, ivars, cvars, tvars>>

\* ------------------------------------------------------------ codec runs

\* The vectors handed to write_vector.
Vectors == UNION {[1..n -> DocIds] : n \in 0..MaxLen}

\* Malformed buffers: every proper prefix of an encoded vector, and headers
\* that declare 2^64-1 elements.
RawBufs ==
  UNION {{SubSeq(write_vector(<<>>, L, "benign").os, 1, n) :
            n \in 0..(SizeofSizeT + SizeofT * Len(L) - 1)} : L \in Vectors}
  \cup {MaxDocId \o d : d \in DocIds}

NoRes == [st |-> "none", fail |-> FALSE, data |-> <<>>]

CodecIdle ==
  /\ csrc = "none"
  /\ cvec = <<>>
  /\ cbuf = <<>>
  /\ cres = NoRes
  /\ cpc = "idle"

CodecInit ==
  /\ cres = NoRes
  /\ \/ /\ csrc = "vec"
        /\ cvec \in Vectors
        /\ cbuf = <<>>
        /\ cpc = "start"
     \/ /\ csrc = "raw"
        /\ cvec = <<>>
        /\ cbuf \in RawBufs
        /\ cpc = "written"

\* write_vector(ss, cvec) on an empty stream.
CodecWrite ==
  /\ cpc = "start"
  /\ \E ub \in Builds :
       LET w == write_vector(<<>>, cvec, ub)
       IN  /\ cbuf' = w.os
           /\ cpc' = IF w.st = "ok" THEN "written" ELSE "aborted"
  /\ UNCHANGED <<csrc, cvec, cres, ivars, kvars, tvars>>

\* read_vector(ss, doc_vec) on a stream holding cbuf, doc_vec empty.
CodecRead ==
  /\ cpc = "written"
  /\ \E ub \in Builds :
       LET r == read_vector(IStream(cbuf), <<>>, ub)
       IN  /\ cres' = [st |-> r.st, fail |-> r.is.fail, data |-> r.data]
           /\ cpc' = IF r.st = "ok" THEN "read"
                     ELSE IF r.st = "abort" THEN "aborted" ELSE "thrown"
  /\ UNCHANGED <<csrc, cvec, cbuf, ivars, kvars, tvars>>

\* ------------------------------------------------------- concurrent runs

\* The two callers that share one index.
Callers == {1, 2}

\* A caller outside add_term, with n calls made.
IdleCaller(n) ==
  [pc |-> "idle", did |-> MinDocId, term |-> "", vec |-> <<>>, calls |-> n]

CallersIdle ==
  /\ thr = [i \in Callers |-> IdleCaller(0)]
  /\ overlapped = FALSE
  /\ raced = FALSE

\* Another caller has read term's entry, holds a different id, and has not
\* inserted yet.
PendingInsert(i, did, term) ==
  \E j \in Callers \ {i} :
    /\ thr[j].pc \in {"insert109", "insert132"}
    /\ thr[j].term = term
    /\ thr[j].did # did

\* Caller i enters add_term(did, term).
TCall(i, did, term) ==
  /\ thr[i].pc = "idle"
  /\ thr[i].calls < MaxCalls
  /\ thr' = [thr EXCEPT ![i] = [pc |-> "exists79", did |-> did, term |-> term,
                                vec |-> <<>>, calls |-> @.calls + 1]]
  /\ overlapped' = (overlapped \/ \E j \in Callers \ {i} : thr[j].pc # "idle")
  /\ invoked' = invoked \cup {term}
  /\ UNCHANGED <<_kvstore, added, ret, raced, kvars, cvars>>

\* add_term, line 79: the exists test that picks the branch.
TExists79(i) ==
  /\ thr[i].pc = "exists79"
  /\ LET new == ~exists(_kvstore, thr[i].term)
     IN  /\ thr' = [thr EXCEPT ![i].pc = IF new THEN "insert109" ELSE "get113"]
         /\ raced' = (raced \/ (new /\ PendingInsert(i, thr[i].did, thr[i].term)))
  /\ UNCHANGED <<ivars, overlapped, kvars, cvars>>

\* add_new_term, lines 103-109: encode the singleton and insert it.
TInsert109(i) ==
  /\ thr[i].pc = "insert109"
  /\ \E ub \in Builds :
       LET r == add_new_term(_kvstore, thr[i].did, thr[i].term, ub)
       IN  /\ _kvstore' = r.store
           /\ added' = added \cup {<<thr[i].did, thr[i].term>>}
  /\ thr' = [thr EXCEPT ![i] = IdleCaller(@.calls)]
  /\ UNCHANGED <<invoked, ret, overlapped, raced, kvars, cvars>>

\* add_existing_term, line 113: the first get.
TGet113(i) ==
  /\ thr[i].pc = "get113"
  /\ _kvstore' = get(_kvstore, thr[i].term).store
  /\ thr' = [thr EXCEPT ![i].pc = "lookup117"]
  /\ UNCHANGED <<invoked, added, ret, overlapped, raced, kvars, cvars>>

\* add_existing_term, lines 117-121: get_doc_vector (exists, get, decode) and
\* the search for the id in the decoded list.
TLookup117(i) ==
  /\ thr[i].pc = "lookup117"
  /\ \E ub \in Builds :
       LET d == get_doc_vector(_kvstore, thr[i].term, ub)
           found == binary_search(d.vec, thr[i].did)
       IN  /\ _kvstore' = d.store
           /\ thr' = [thr EXCEPT ![i] =
                        IF found THEN IdleCaller(@.calls)
                        ELSE [@ EXCEPT !.pc = "insert132", !.vec = d.vec]]
           /\ added' = IF found THEN added \cup {<<thr[i].did, thr[i].term>>}
                       ELSE added
           /\ raced' = (raced \/
                          (~found /\ PendingInsert(i, thr[i].did, thr[i].term)))
  /\ UNCHANGED <<invoked, ret, overlapped, kvars, cvars>>

\* add_existing_term, lines 123-132: insert the id into the list decoded
\* before, encode it and insert the blob.
TInsert132(i) ==
  /\ thr[i].pc = "insert132"
  /\ \E ub \in Builds :
       LET it == lower_bound(thr[i].vec, 1, Len(thr[i].vec), thr[i].did)
           doc_vec == VecInsert(thr[i].vec, it, thr[i].did)
           w == write_vector(<<>>, doc_vec, ub)
       IN  _kvstore' = insert(_kvstore, thr[i].term, w.os)
  /\ added' = added \cup {<<thr[i].did, thr[i].term>>}
  /\ thr' = [thr EXCEPT ![i] = IdleCaller(@.calls)]
  /\ UNCHANGED <<invoked, ret, overlapped, raced, kvars, cvars>>

\* --------------------------------------------------------- specifications

Init == IndexInit /\ KVInit /\ CodecIdle /\ CallersIdle

Next ==
  \/ \E did \in DocIds, term \in Terms : AddTerm(did, term)
  \/ \E term \in Terms : GetDocVector(term)

\* The index driven by add_term and get_doc_vector calls in any order.
Spec == Init /\ [][Next]_vars

InitKV == IndexInit /\ KVInit /\ CodecIdle /\ CallersIdle

NextKV ==
  \/ \E k \in Terms, v \in KVBlobs : KVInsert(k, v)
  \/ \E k \in Terms : KVGet(k)
  \/ \E k \in Terms : KVExists(k)

\* A KVStore driven directly by insert, get and exists calls in any order.
SpecKV == InitKV /\ [][NextKV]_vars

InitCodec == IndexInit /\ KVInit /\ CodecInit /\ CallersIdle

NextCodec == CodecWrite \/ CodecRead

\* The codec on its own: a vector written and read back, or a malformed
\* buffer read.
SpecCodec == InitCodec /\ [][NextCodec]_vars

\* The shared index when the callers start: as constructed, or after one
\* add_term call that has returned.
InitConc ==
  /\ \/ IndexInit
     \/ /\ _kvstore = add_term(EmptyStore, MinDocId, "cat", "benign").store
        /\ invoked = {"cat"}
        /\ added = {<<MinDocId, "cat">>}
        /\ ret = NoRet
  /\ KVInit
  /\ CodecIdle
  /\ CallersIdle

NextConc ==
  \/ \E i \in Callers, did \in DocIds, term \in Terms : TCall(i, did, term)
  \/ \E i \in Callers : TExists79(i)
  \/ \E i \in Callers : TInsert109(i)
  \/ \E i \in Callers : TGet113(i)
  \/ \E i \in Callers : TLookup117(i)
  \/ \E i \in Callers : TInsert132(i)

\* Two callers sharing one index, their add_term calls interleaved at the
\* store operations (each store operation taken as atomic).
SpecConc == InitConc /\ [][NextConc]_vars

\* ----------------------------------------------------------- observations

\* The doc-ids whose add_term under t has returned.
Postings(t) == {d \in DocIds : <<d, t>> \in added}

\* The list a lookup of t decodes from store s (empty when t is not held).
DocList(s, t) ==
  IF exists(s, t) THEN read_vector(IStream(s[t]), <<>>, "benign").data ELSE <<>>

\* The same list as a set.
DocSet(s, t) == LET l == DocList(s, t) IN {l[i] : i \in 1..Len(l)}

\* ------------------------------------------------------------------ claims

\* C1: after any sequence of add_term calls, for every term that was added
\* get_doc_vector returns a list whose elements are exactly the doc-ids whose
\* add_term under that term has returned, each exactly once.
C1_LookupIsExactlyAdded ==
  \A t \in Terms, ub \in Builds :
    Postings(t) # {} =>
      LET r == get_doc_vector(_kvstore, t, ub)
      IN  /\ r.st = "ok"
          /\ r.present
          /\ {r.vec[i] : i \in 1..Len(r.vec)} = Postings(t)
          /\ Len(r.vec) = Cardinality(Postings(t))

\* A term holds every offered id and the last call added one of them again.
C1_Witness ==
  /\ ret.op = "add_term"
  /\ ret.inserts = 0
  /\ Postings(ret.term) = DocIds

\* C2: in every reachable state, adds of the smallest and the largest DocId
\* included, the list get_doc_vector returns for any term is strictly
\* ascending.
C2_StrictlyAscending ==
  \A t \in Terms, ub \in Builds :
    LET r == get_doc_vector(_kvstore, t, ub)
    IN  r.present =>
          \A i \in 1..(Len(r.vec) - 1) : Less(r.vec[i], r.vec[i + 1])

\* The smallest and the largest id were added first, and the last call put an
\* id between them.
C2_Witness ==
  /\ ret.op = "add_term"
  /\ ret.inserts = 1
  /\ ret.did = U64(200)
  /\ DocList(_kvstore, ret.term) = <<MinDocId, U64(200), MaxDocId>>

\* C3: in every state reachable by add_term and get_doc_vector calls, the
\* store holds a term if and only if add_term was invoked with that term.
C3_ExistsIffInvoked ==
  \A t \in Terms : exists(_kvstore, t) <=> t \in invoked

\* A term that was never added has just been looked up, another was added.
C3_Witness ==
  /\ ret.op = "get_doc_vector"
  /\ ret.term \notin invoked
  /\ Cardinality(invoked) = 1

\* C4: get_doc_vector of a term that was never added returns absence, and no
\* lookup returns a present but empty list.
C4_AbsenceNotEmptyList ==
  /\ ret.op = "get_doc_vector" =>
       /\ ret.term \notin invoked => ~ret.present
       /\ ret.present => ret.vec # <<>>
  /\ \A t \in Terms, ub \in Builds :
       LET r == get_doc_vector(_kvstore, t, ub)
       IN  /\ t \notin invoked => ~r.present
           /\ r.present => r.vec # <<>>

\* The last call looked up a term never added and got absence.
C4_Witness ==
  /\ ret.op = "get_doc_vector"
  /\ ret.st = "ok"
  /\ ~ret.present
  /\ ~exists(_kvstore, ret.term)

\* C5: add_term is idempotent: an add_term(d, t) that directly follows an
\* add_term(d, t) leaves the store as the first left it, and an add_term of
\* an id already in the term's list performs no store insert.
C5_AddTwiceIsAddOnce ==
  [][(/\ ret'.op = "add_term"
      /\ \/ ret'.did \in DocSet(_kvstore, ret'.term)
         \/ /\ ret.op = "add_term"
            /\ ret.st = "ok"
            /\ ret.did = ret'.did
            /\ ret.term = ret'.term)
     => (_kvstore' = _kvstore /\ ret'.st = "ok" /\ ret'.inserts = 0)]_vars

\* The last call added an id its term already listed, among others.
C5_Witness ==
  /\ ret.op = "add_term"
  /\ ret.inserts = 0
  /\ ret.did \in DocSet(_kvstore, ret.term)
  /\ Len(DocList(_kvstore, ret.term)) = 2

\* C6: across every step, every term's set of doc-ids after the step includes
\* the set before it, and a term the store holds stays held.
C6_MonotonicGrowth ==
  [][\A t \in Terms :
       /\ exists(_kvstore, t) => exists(_kvstore', t)
       /\ DocSet(_kvstore, t) \subseteq DocSet(_kvstore', t)]_vars

\* Both terms are held and the last call grew a list that had two ids.
C6_Witness ==
  /\ \A t \in Terms : exists(_kvstore, t)
  /\ ret.op = "add_term"
  /\ ret.inserts = 1
  /\ Len(DocList(_kvstore, ret.term)) = 3

\* C7: for every list L of DocIds, the empty list and lists with the largest
\* DocId included, read_vector of the bytes write_vector(L) produced yields L.
C7_RoundTrip ==
  (csrc = "vec" /\ cpc \in {"read", "aborted", "thrown"}) =>
    (cpc = "read" /\ cres.data = cvec)

\* C8: after insert(k, v), get(k) returns exactly v until the next insert of
\* k, whatever is done to other keys in between.
C8_LastWriteWins ==
  /\ \A k \in DOMAIN lastPut : get(kv, k).val = lastPut[k]
  /\ (kret.op = "get" /\ kret.key \in DOMAIN lastPut) =>
       kret.val = lastPut[kret.key]

\* A key inserted twice was read back while the other key is held too.
C8_Witness ==
  /\ kret.op = "get"
  /\ kret.key \in DOMAIN lastPut
  /\ kret.val # <<>>
  /\ \E k \in DOMAIN kv : k # kret.key

\* What a finished read reports to its caller.
ReadError ==
  IF cpc = "thrown" THEN "length_error"
  ELSE IF cpc = "aborted" THEN "abort" ELSE "none"

\* C9: a read of a malformed buffer fails instead of returning a list: with
\* Truncated when the buffer is shorter than the 8-byte header, with
\* LengthOverflow when the declared count exceeds the bytes that remain.
C9_MalformedReadFails ==
  (csrc = "raw" /\ cpc \in {"read", "aborted", "thrown"}) =>
    /\ cpc # "read"
    /\ Len(cbuf) < SizeofSizeT => ReadError = "Truncated"
    /\ Len(cbuf) >= SizeofSizeT => ReadError = "LengthOverflow"

\* C10: get(k) of a key the store does not hold reports MissingKey rather
\* than returning a blob.
C10_GetMissingKeyReports ==
  (kret.op = "get" /\ ~kret.existed) => kret.err = "MissingKey"

\* Some id whose add_term returned is missing from its term's list.
LostUpdate == \E p \in added : p[1] \notin DocSet(_kvstore, p[2])

\* C11: the add path is not atomic: when two add_term calls on one term with
\* different ids have both read before either inserts, an added id can be
\* missing from the list; an id is lost only through such an interleaving,
\* never when the calls run one after another.
C11_LostOnlyByInterleaving ==
  /\ LostUpdate => (raced /\ overlapped)
  /\ raced => overlapped

\* Both callers have returned after such an interleaving and one id is lost.
C11_Witness ==
  /\ \A i \in Callers : thr[i].pc = "idle" /\ thr[i].calls = MaxCalls
  /\ raced
  /\ LostUpdate

\* The first position of L whose element is greater than d, or the end.
FirstGreater(L, d) ==
  CHOOSE p \in 1..(Len(L) + 1) :
    /\ p = Len(L) + 1 \/ Less(d, L[p])
    /\ \A i \in 1..(p - 1) : ~Less(d, L[i])

\* C12: an add_term(d, t) with t held and d not in its sorted list L leaves
\* the list L with d put in at the first position whose element is greater
\* than d (the end if there is none), all other elements kept in order.
C12_InsertAtFirstGreater ==
  [][(/\ ret'.op = "add_term"
      /\ exists(_kvstore, ret'.term)
      /\ ret'.did \notin DocSet(_kvstore, ret'.term))
     => LET L == DocList(_kvstore, ret'.term)
            p == FirstGreater(L, ret'.did)
        IN  DocList(_kvstore', ret'.term) =
              SubSeq(L, 1, p - 1) \o <<ret'.did>> \o SubSeq(L, p, Len(L))]_vars

\* The last call put an id between a smaller and a greater one.
C12_Witness ==
  /\ ret.op = "add_term"
  /\ ret.inserts = 1
  /\ LET L == DocList(_kvstore, ret.term)
     IN  \E i \in 2..(Len(L) - 1) :
           L[i] = ret.did /\ Less(L[i - 1], ret.did) /\ Less(ret.did, L[i + 1])

\* C13: every blob the store holds for a term is 8 + 8*n bytes long, n the
\* number of distinct ids added under the term, and its 8-byte header holds n.
C13_BlobLength ==
  \A t \in DOMAIN _kvstore :
    LET n == Cardinality(Postings(t))
    IN  /\ Len(_kvstore[t]) = 8 + 8 * n
        /\ FromBytes(SubSeq(_kvstore[t], 1, 8)) = n

\* A term holds every offered id after the same id was added twice.
C13_Witness ==
  \E t \in DOMAIN _kvstore :
    /\ Postings(t) = DocIds
    /\ ret.op = "add_term"
    /\ ret.term = t
    /\ ret.inserts = 0
    /\ Len(_kvstore[t]) = 8 + 8 * Cardinality(DocIds)

\* C14: get and exists are read-only: a call of either, on a key held or
\* not, leaves the store mapping as it was.
C14_GetExistsReadOnly ==
  [][kret'.op \in {"get", "exists"} => kv' = kv]_vars

\* C15: get_doc_vector never changes the store, for a term added or not.
C15_LookupLeavesStore ==
  [][ret'.op = "get_doc_vector" => _kvstore' = _kvstore]_vars

\* A term never added was looked up while the other term holds two ids.
C15_Witness ==
  /\ ret.op = "get_doc_vector"
  /\ ~ret.present
  /\ ret.term \notin DOMAIN _kvstore
  /\ \E t \in DOMAIN _kvstore : Len(DocList(_kvstore, t)) = 2

\* C16: add_term(d, t) changes at most the entry of t: every other term is
\* held after the call iff it was before, with the same blob.
C16_AddTouchesOneTerm ==
  [][ret'.op = "add_term" =>
       \A t \in Terms \ {ret'.term} :
         /\ exists(_kvstore', t) <=> exists(_kvstore, t)
         /\ exists(_kvstore, t) => _kvstore'[t] = _kvstore[t]]_vars

\* The last call grew one term's list to two ids while the other term holds
\* a list of two as well.
C16_Witness ==
  /\ ret.op = "add_term"
  /\ ret.inserts = 1
  /\ \A t \in Terms : Len(DocList(_kvstore, t)) = 2

\* The ids of S in ascending order.
Ascending(S) ==
  CHOOSE l \in [1..Cardinality(S) -> S] :
    \A i \in 1..(Cardinality(S) - 1) : Less(l[i], l[i + 1])

\* C17: the store depends only on the set of pairs added, not on their order
\* or multiplicity: it holds exactly the terms of the pairs, each with the
\* encoding of its ids in ascending order.
C17_StoreIsFunctionOfPairs ==
  /\ DOMAIN _kvstore = {p[2] : p \in added}
  /\ \A t \in DOMAIN _kvstore :
       _kvstore[t] =
         ToBytes(Cardinality(Postings(t)), 8) \o Flatten(Ascending(Postings(t)))

\* A term got the largest id first and the smallest last, one of them twice.
C17_Witness ==
  /\ ret.op = "add_term"
  /\ ret.inserts = 1
  /\ ret.did = MinDocId
  /\ Postings(ret.term) = DocIds
  /\ \E t \in Terms \ {ret.term} : Postings(t) = {MaxDocId}

====
